---- MODULE Spec2Model ----
(***************************************************************************)
(* A model of pyes/utils.py: the ResultSet response wrapper (fix_keys,     *)
(* clean_highlight, the lazily computed total) and the recursive           *)
(* get_values serializer of Django model instances.                        *)
(*                                                                         *)
(* Python values are records [ty, v]; a dict is a function whose domain is *)
(* its key set; a key or field name is the sequence of its characters, so  *)
(* that key.startswith("_"), field[0] and key[1:] are computed on it.      *)
(***************************************************************************)
EXTENDS Integers, Sequences, FiniteSets, TLC

VARIABLES
    response,   \* the dict handed to ResultSet(...)
    results,    \* self.results
    _total,     \* self._total
    valid,      \* self.valid
    facets,     \* self.facets
    last,       \* the ResultSet call that ran last, with its arguments
    ret,        \* what the last read of the total property returned
    call,       \* get_values: the arguments of the outermost call
    stack,      \* get_values: the active calls, innermost last
    outcome     \* get_values: what the outermost call returned or raised

rsVars == <<response, results, _total, valid, facets, last, ret>>
gvVars == <<call, stack, outcome>>
vars == <<response, results, _total, valid, facets, last, ret, call, stack, outcome>>

-----------------------------------------------------------------------------
(* Bounds *)

\* hits in a response
MaxHits == 2
\* nesting depth of the go_into argument
MaxDepth == 1

-----------------------------------------------------------------------------
(* Python values *)

None == [ty |-> "none", v |-> 0]
IntV(n) == [ty |-> "int", v |-> n]
\* a list / a string of n elements
ListV(n) == [ty |-> "list", v |-> n]
StrV(n) == [ty |-> "str", v |-> n]

EmptyDict == [k \in {} |-> None]

\* the outermost get_values call has not ended
Pending == [ty |-> "pending", v |-> 0]

\* d.get(k, default)
Get(d, k, default) == IF k \in DOMAIN d THEN d[k] ELSE default

\* d[k] = v
Put(d, k, v) == [x \in (DOMAIN d) \cup {k} |-> IF x = k THEN v ELSE d[x]]

\* del d[k]
Del(d, k) == [x \in (DOMAIN d) \ {k} |-> d[x]]

\* bool(item), as `not item` tests it
Truthy(item) ==
    ~ \/ item.ty = "none"
      \/ item.ty \in {"list", "str"} /\ item.v = 0
      \/ item.ty = "int" /\ item.v = 0

\* key.startswith("_")
StartsWithUnderscore(key) == Len(key) > 0 /\ key[1] = "_"

\* the orders in which a dict of key set S can hand out its items
Perms(S) ==
    {o \in [1..Cardinality(S) -> S] : \A i, j \in DOMAIN o : o[i] = o[j] => i = j}

-----------------------------------------------------------------------------
(* Responses *)

HIGHLIGHT == <<"h", "i", "g", "h", "l", "i", "g", "h", "t">>
K_id == <<"_", "i", "d">>
K_v == <<"_", "v">>
K__v == <<"_", "_", "v">>

\* hits as the backend sends them: metadata under prefixed keys, and for some
\* a highlight sub-mapping with empty and non-empty fragments
MetaHit == K_id :> StrV(1)
VersionedHit == (K_v :> IntV(1)) @@ (K__v :> IntV(2))
ListHighlight == ("title" :> ListV(0)) @@ ("body" :> ListV(1))
TextHighlight == ("title" :> None) @@ ("body" :> StrV(0)) @@ ("tags" :> StrV(1))

Hits ==
    { MetaHit,
      VersionedHit,
      MetaHit @@ (HIGHLIGHT :> ListHighlight),
      VersionedHit @@ (HIGHLIGHT :> TextHighlight) }

HitSeqs == UNION {[1..n -> Hits] : n \in 0..MaxHits}

TotalVals == {None, IntV(2)}

HitsViews ==
    { ("hits" :> hs) @@ t :
        hs \in HitSeqs, t \in {EmptyDict} \cup {"total" :> x : x \in TotalVals} }

FacetBlock == "tags" :> IntV(3)

\* with a hits sub-structure, or without one: empty, or a flat reply that
\* carries its total at top level
Responses ==
    { h @@ f :
        h \in {EmptyDict, "total" :> IntV(2)} \cup {"hits" :> hv : hv \in HitsViews},
        f \in {EmptyDict, "facets" :> FacetBlock} }

-----------------------------------------------------------------------------
(* ResultSet *)

\* the inner loop of fix_keys over hit.items(), a list built before the loop
RECURSIVE FixHit(_, _, _)
FixHit(hit, items, order) ==
    IF order = <<>> THEN hit
    ELSE LET key == Head(order)
             item == items[key]
         IN  IF StartsWithUnderscore(key)
             THEN FixHit(Del(Put(hit, Tail(key), item), key), items, Tail(order))
             ELSE FixHit(hit, items, Tail(order))

\* what fix_keys can leave of one hit, over the orders of its items
FixOutcomes(hit) == {FixHit(hit, hit, o) : o \in Perms(DOMAIN hit)}

\* the outer loop of fix_keys
FixKeysHits(hits) ==
    {hs \in [DOMAIN hits -> UNION {FixOutcomes(hits[i]) : i \in DOMAIN hits}] :
        \A i \in DOMAIN hits : hs[i] \in FixOutcomes(hits[i])}

\* clean_highlight dropping only the null fragments
CleanHlNoneOnly(hl) == [k \in {x \in DOMAIN hl : hl[x] # None} |-> hl[k]]

\* the inner loop of clean_highlight over hl.items()
CleanHl(hl) == [k \in {x \in DOMAIN hl : Truthy(hl[x])} |-> hl[k]]

CleanHit(hit) ==
    IF HIGHLIGHT \in DOMAIN hit
    THEN [hit EXCEPT ![HIGHLIGHT] = CleanHl(@)]
    ELSE hit

\* the outer loop of clean_highlight
CleanHits(hits) == [i \in DOMAIN hits |-> CleanHit(hits[i])]

\* self.valid after __init__
IsValid(r) == "hits" \in DOMAIN r

\* total reading the working view without looking at self.valid
ComputeTotalUnguarded(isValid, view) == Get(view, "total", IntV(0))

\* the value the total property computes on a first read
ComputeTotal(isValid, view) ==
    IF isValid THEN Get(view, "total", IntV(0)) ELSE IntV(0)

NoRead == [ty |-> "noread", v |-> 0]

\* no call yet: the response is still in its holder's hands
New == [op |-> "new", fix_keys |-> FALSE, clean_highlight |-> FALSE]
\* a method call after construction
Called(name) == [op |-> name, fix_keys |-> FALSE, clean_highlight |-> FALSE]

InitRS ==
    /\ response \in Responses
    /\ results = EmptyDict
    /\ _total = None
    /\ valid = FALSE
    /\ facets = EmptyDict
    /\ last = New
    /\ ret = NoRead
    /\ call = EmptyDict
    /\ stack = <<>>
    /\ outcome = Pending

\* ResultSet.__init__
ResultSetInit(fix, clean) ==
    /\ last = New
    /\ LET v == IsValid(response)
           view == IF v THEN response["hits"] ELSE response
       IN  /\ valid' = v
           /\ \E fixed \in (IF fix /\ v THEN FixKeysHits(view["hits"])
                            ELSE {Get(view, "hits", <<>>)}) :
                results' =
                    IF v
                    THEN [view EXCEPT !["hits"] =
                            IF clean THEN CleanHits(fixed) ELSE fixed]
                    ELSE view
    /\ _total' = None
    /\ facets' = Get(response, "facets", EmptyDict)
    /\ last' = [op |-> "init", fix_keys |-> fix, clean_highlight |-> clean]
    /\ UNCHANGED <<response, ret, call, stack, outcome>>

\* ResultSet.fix_keys
fix_keys ==
    /\ last # New
    /\ IF valid
       THEN \E fixed \in FixKeysHits(results["hits"]) :
                results' = [results EXCEPT !["hits"] = fixed]
       ELSE results' = results
    /\ last' = Called("fix_keys")
    /\ UNCHANGED <<response, _total, valid, facets, ret, call, stack, outcome>>

\* ResultSet.clean_highlight
clean_highlight ==
    /\ last # New
    /\ results' = IF valid
                  THEN [results EXCEPT !["hits"] = CleanHits(@)]
                  ELSE results
    /\ last' = Called("clean_highlight")
    /\ UNCHANGED <<response, _total, valid, facets, ret, call, stack, outcome>>

\* ResultSet.total
total ==
    /\ last # New
    /\ _total' = IF _total = None THEN ComputeTotal(valid, results) ELSE _total
    /\ ret' = _total'
    /\ last' = Called("total")
    /\ UNCHANGED <<response, results, valid, facets, call, stack, outcome>>

\* the holder of the response dict assigns its hits sub-structure's total entry
SetVals == {IntV(5)}

SetTotal(x) ==
    /\ last # New
    /\ valid
    /\ results' = Put(results, "total", x)
    /\ UNCHANGED <<response, _total, valid, facets, last, ret, call, stack, outcome>>

NextRS ==
    \/ \E fix, clean \in BOOLEAN : ResultSetInit(fix, clean)
    \/ fix_keys
    \/ clean_highlight
    \/ total
    \/ \E x \in SetVals : SetTotal(x)

SpecRS == InitRS /\ [][NextRS]_vars

-----------------------------------------------------------------------------
(* ResultSet: properties *)

\* fix_keys has run, and nothing but clean_highlight or total after it
FixRan(l) == l.op = "fix_keys" \/ (l.op = "init" /\ l.fix_keys)

NoPrefixedKey(hits) ==
    \A i \in DOMAIN hits : \A key \in DOMAIN hits[i] : ~StartsWithUnderscore(key)

\* C4: once fix_keys has run on a valid response no hit has a key that starts
\* with an underscore, and a second run of fix_keys leaves every hit as it is.
C4_FixKeysIdempotent ==
    [][ /\ (valid' /\ FixRan(last')) => NoPrefixedKey(results'["hits"])
        /\ (valid /\ FixRan(last) /\ last'.op = "fix_keys") => results' = results
      ]_vars

\* C5: after construction valid is true exactly when the response has a hits
\* key; while valid is false every read of total returns 0; facets is the
\* response's facets entry, or an empty mapping when there is none.
C5_ValidIffHits ==
    last # New =>
        /\ valid <=> ("hits" \in DOMAIN response)
        /\ (~valid /\ ret # NoRead) => ret = IntV(0)
        /\ facets = IF "facets" \in DOMAIN response
                    THEN response["facets"] ELSE EmptyDict

\* C5 witness: a flat reply with a top-level total and a facets block, found
\* invalid, its total read as 0
C5_Witness ==
    /\ last.op = "total"
    /\ ~valid
    /\ "total" \in DOMAIN response
    /\ ret = IntV(0)
    /\ facets = FacetBlock

\* C6: once total has been read, every later read returns the value of that
\* read, whatever the hits sub-structure's total entry is or has become.
C6_TotalMemoized ==
    [][ (ret # NoRead /\ last'.op = "total") => ret' = ret ]_vars

\* the values the highlight cleaning counts as empty
Falsy(x) == x \in {ListV(0), StrV(0), None}

\* hit by hit: a highlight sub-mapping keeps exactly its non-empty entries,
\* unchanged, and nothing else of the hit changes
CleanRel(before, after) ==
    /\ DOMAIN after = DOMAIN before
    /\ \A i \in DOMAIN before :
          IF HIGHLIGHT \in DOMAIN before[i]
          THEN /\ DOMAIN after[i] = DOMAIN before[i]
               /\ \A k \in DOMAIN before[i] \ {HIGHLIGHT} : after[i][k] = before[i][k]
               /\ LET hb == before[i][HIGHLIGHT]
                      ha == after[i][HIGHLIGHT]
                  IN  /\ DOMAIN ha = {k \in DOMAIN hb : ~Falsy(hb[k])}
                      /\ \A k \in DOMAIN ha : ha[k] = hb[k]
          ELSE after[i] = before[i]

\* C9: a valid response built with clean_highlight=true (and a later call of
\* clean_highlight) has, in every hit with a highlight sub-mapping, exactly the
\* falsy entries removed; the other entries and the other hits are unchanged.
C9_CleanHighlightFrame ==
    [][ /\ (last = New /\ last'.op = "init" /\ last'.clean_highlight /\ valid') =>
              \E mid \in (IF last'.fix_keys
                          THEN FixKeysHits(response["hits"]["hits"])
                          ELSE {response["hits"]["hits"]}) :
                  CleanRel(mid, results'["hits"])
        /\ (valid /\ last # New /\ last'.op = "clean_highlight") =>
              CleanRel(results["hits"], results'["hits"])
      ]_vars

\* C9 witness: built with clean_highlight=true from two hits, one without a
\* highlight, one whose highlight lost its empty title and null-free body kept
C9_Witness ==
    /\ last.op = "init" /\ last.clean_highlight /\ ~last.fix_keys
    /\ valid
    /\ Len(results["hits"]) = MaxHits
    /\ \E i, j \in DOMAIN results["hits"] :
          /\ HIGHLIGHT \notin DOMAIN results["hits"][i]
          /\ HIGHLIGHT \in DOMAIN results["hits"][j]
          /\ response["hits"]["hits"][j][HIGHLIGHT] = ListHighlight
          /\ results["hits"][j][HIGHLIGHT] = ("body" :> ListV(1))

-----------------------------------------------------------------------------
(* get_values: the values an instance's attributes can hold *)

Model(r) == [ty |-> "model", v |-> r]
\* a datetime.date, datetime.time or datetime.datetime
Date == [ty |-> "date", v |-> 0]
\* a related manager (a multi-valued relation)
Manager == [ty |-> "manager", v |-> 0]
\* a bound method or function returning x
Callable(x) == [ty |-> "callable", v |-> x]
\* an instance of some other class
Object == [ty |-> "object", v |-> 0]
\* getattr raised
Raises == [ty |-> "raises", v |-> 0]
\* repr(x)
Repr(x) == [ty |-> "repr", v |-> x]
\* a dict that get_values returned
DocV(d) == [ty |-> "doc", v |-> d]
\* an exception leaving get_values
Raised(e) == [ty |-> "raised", v |-> e]

PK == <<"p", "k">>
NAME == <<"n", "a", "m", "e">>
CATEGORY == <<"c", "a", "t", "e", "g", "o", "r", "y">>
SECRET == <<"_", "s", "e", "c", "r", "e", "t">>
LABEL == <<"l", "a", "b", "e", "l">>

Records == {"r1", "r2"}

\* instance.pk
Pk(r) == IF r = "r1" THEN IntV(1) ELSE IntV(2)

\* instance._meta.get_all_field_names()
FieldNames == <<NAME, CATEGORY, SECRET>>

\* what getattr(instance, name) can give: the declared fields name, category
\* (a relation to any record, null, or a manager) and _secret, and the
\* accessor label, which is not a field
Reads(r, name) ==
    IF name = NAME
        THEN IF r = "r1" THEN {IntV(5), Callable(None)}
             ELSE {Date, Object, Raises}
    ELSE IF name = CATEGORY
        THEN {Model(x) : x \in Records} \cup {None, Manager}
    ELSE IF name = SECRET
        THEN {IntV(7)}
    ELSE IF r = "r1" THEN {Callable(None), Model("r2")}
         ELSE {Date, Callable(IntV(5))}

\* isinstance(x, SIMPLE_TYPES)
IsSimple(x) == x.ty \in {"int", "str", "list", "none"}

\* a value that has a .get method: a dict, not a str
HasGet(x) == "ty" \notin DOMAIN x

-----------------------------------------------------------------------------
(* get_values: its arguments, in the form the shorthand checks of lines      *)
(* 189-196 leave them in: go_into a dict, exclude and extra tuples           *)

Excludes == {{}, {CATEGORY}}
Extras == {<<>>, <<LABEL, SECRET>>}

\* go_into dicts nested at most d deep; the options of a field are a dict with
\* any of the keys go_into, exclude, extra, or the shorthand string
RECURSIVE GoIntos(_)
GoIntos(d) ==
    {EmptyDict} \cup
    (IF d = 0 THEN {}
     ELSE {CATEGORY :> o :
            o \in {StrV(1)} \cup
                { g @@ e @@ x :
                    g \in {EmptyDict} \cup {"go_into" :> gi : gi \in GoIntos(d - 1)},
                    e \in {EmptyDict, "exclude" :> {CATEGORY}},
                    x \in {EmptyDict} \cup {"extra" :> t : t \in Extras \ {<<>>}} }})

Calls ==
    [instance : Records, go_into : GoIntos(MaxDepth), exclude : Excludes,
     extra : Extras, skip_none : BOOLEAN]

-----------------------------------------------------------------------------
(* get_values *)

\* the locals of a call as its loops begin
Frame(instance, go_into, exclude, extra, skip_none) ==
    [instance |-> instance, go_into |-> go_into, exclude |-> exclude,
     extra |-> extra, skip_none |-> skip_none,
     value |-> (PK :> Pk(instance)),
     ei |-> 1, fi |-> 1, property |-> None]

Top == stack[Len(stack)]

\* the innermost call's locals replaced by f
WithTop(f) == [stack EXCEPT ![Len(stack)] = f]

\* go_into[field].get(key, default), the default too when .get is missing
OptionOf(options, key, default) ==
    IF HasGet(options) THEN Get(options, key, default) ELSE default

\* the store of the extra loop
StoreExtra(value, field, property, skip_none) ==
    IF skip_none /\ property = None THEN value
    ELSE IF IsSimple(property) THEN Put(value, field, property)
    ELSE Put(value, field, Repr(property))

\* the field loop leaving out private fields only when they are excluded
SkipsNoPrivate(f, field, property) ==
    \/ property = Raises
    \/ f.skip_none /\ property = None
    \/ field \in f.exclude
    \/ property.ty = "manager"

\* the `continue`s of the field loop
Skips(f, field, property) ==
    \/ property = Raises
    \/ f.skip_none /\ property = None
    \/ field \in f.exclude
    \/ field[1] = "_"
    \/ property.ty = "manager"

\* the else branch of the field loop: what ends up in property
Resolved(property) ==
    IF property.ty \in {"model", "date"} THEN property
    ELSE IF property.ty = "callable" THEN property.v
    ELSE property

\* the field loop without its isinstance(property, Model) branch
StoreFieldNoPk(value, field, property) ==
    IF property.ty = "date" THEN Put(value, field, property)
    ELSE LET p == Resolved(property)
         IN  IF IsSimple(p) THEN Put(value, field, p)
             ELSE Put(value, field, Repr(p))

\* the else branch of the field loop: what is stored
StoreField(value, field, property) ==
    IF property.ty = "model" THEN Put(value, field, Pk(property.v))
    ELSE IF property.ty = "date" THEN Put(value, field, property)
    ELSE LET p == Resolved(property)
         IN  IF IsSimple(p) THEN Put(value, field, p)
             ELSE Put(value, field, Repr(p))

\* the recursive call made with the caller's own options
NestedSameOptions(f, field, property) ==
    Frame(property.v, f.go_into, f.exclude, f.extra, f.skip_none)

\* the recursive call of the field loop
Nested(f, field, property) ==
    Frame(property.v,
          OptionOf(f.go_into[field], "go_into", EmptyDict),
          OptionOf(f.go_into[field], "exclude", {}),
          OptionOf(f.go_into[field], "extra", <<>>),
          f.skip_none)

InitGV ==
    /\ call \in Calls
    /\ stack = <<Frame(call.instance, call.go_into, call.exclude, call.extra,
                       call.skip_none)>>
    /\ outcome = Pending
    /\ response = EmptyDict
    /\ results = EmptyDict
    /\ _total = None
    /\ valid = FALSE
    /\ facets = EmptyDict
    /\ last = New
    /\ ret = NoRead

\* one round of `for field in extra`
ProcessExtra ==
    /\ stack # <<>>
    /\ Top.ei <= Len(Top.extra)
    /\ \E got \in Reads(Top.instance, Top.extra[Top.ei]) :
        LET field == Top.extra[Top.ei]
            property == IF got.ty = "callable" THEN got.v ELSE got
        IN  stack' = WithTop([Top EXCEPT
                        !.value = StoreExtra(@, field, property, Top.skip_none),
                        !.property = property,
                        !.ei = @ + 1])
    /\ UNCHANGED <<rsVars, call, outcome>>

InFieldLoop ==
    /\ stack # <<>>
    /\ Top.ei > Len(Top.extra)
    /\ Top.fi <= Len(FieldNames)

\* one round of `for field in field_options` that skips or stores the field
ProcessField ==
    /\ InFieldLoop
    /\ \E property \in Reads(Top.instance, FieldNames[Top.fi]) :
        LET field == FieldNames[Top.fi]
        IN  \/ /\ Skips(Top, field, property)
               /\ stack' = WithTop([Top EXCEPT !.property = property, !.fi = @ + 1])
            \/ /\ ~Skips(Top, field, property)
               /\ field \notin DOMAIN Top.go_into
               /\ stack' = WithTop([Top EXCEPT
                                !.value = StoreField(@, field, property),
                                !.property = Resolved(property),
                                !.fi = @ + 1])
    /\ UNCHANGED <<rsVars, call, outcome>>

\* a round that finds the field in go_into and calls get_values on a Model
Recurse ==
    /\ InFieldLoop
    /\ \E property \in Reads(Top.instance, FieldNames[Top.fi]) :
        LET field == FieldNames[Top.fi]
        IN  /\ ~Skips(Top, field, property)
            /\ field \in DOMAIN Top.go_into
            /\ property.ty = "model"
            /\ stack' = Append(WithTop([Top EXCEPT !.property = property]),
                               Nested(Top, field, property))
    /\ UNCHANGED <<rsVars, call, outcome>>

\* a round that finds the field in go_into and calls get_values on something
\* else: TypeError("Argument is not a Model"), which no caller catches
RaiseTypeError ==
    /\ InFieldLoop
    /\ \E property \in Reads(Top.instance, FieldNames[Top.fi]) :
        LET field == FieldNames[Top.fi]
        IN  /\ ~Skips(Top, field, property)
            /\ field \in DOMAIN Top.go_into
            /\ property.ty # "model"
    /\ stack' = <<>>
    /\ outcome' = Raised("TypeError")
    /\ UNCHANGED <<rsVars, call>>

Finished(f) == f.ei > Len(f.extra) /\ f.fi > Len(FieldNames)

\* `return value` of a recursive call: the caller stores it under the field
ReturnNested ==
    /\ Len(stack) > 1
    /\ Finished(Top)
    /\ LET caller == stack[Len(stack) - 1]
           field == FieldNames[caller.fi]
       IN  stack' = [SubSeq(stack, 1, Len(stack) - 1) EXCEPT ![Len(stack) - 1] =
                        [caller EXCEPT !.value = Put(@, field, DocV(Top.value)),
                                       !.fi = @ + 1]]
    /\ UNCHANGED <<rsVars, call, outcome>>

\* `return value` of the outermost call
Return ==
    /\ Len(stack) = 1
    /\ Finished(Top)
    /\ outcome' = DocV(Top.value)
    /\ stack' = <<>>
    /\ UNCHANGED <<rsVars, call>>

NextGV ==
    \/ ProcessExtra
    \/ ProcessField
    \/ Recurse
    \/ RaiseTypeError
    \/ ReturnNested
    \/ Return

SpecGV == InitGV /\ [][NextGV]_vars

\* a call that can take a step takes it: get_values runs on its own thread
\* of control to its return or its exception
FairSpecGV == SpecGV /\ WF_vars(NextGV)

-----------------------------------------------------------------------------
(* get_values: properties *)

\* a step of the innermost call that stays in it
SameCall == stack # <<>> /\ Len(stack') = Len(stack)
ExtraStep == SameCall /\ Top'.ei = Top.ei + 1
FieldStep == SameCall /\ Top'.fi = Top.fi + 1
\* a recursive call, and the return of one
Push == stack # <<>> /\ Len(stack') = Len(stack) + 1
Pop == Len(stack) > 1 /\ Len(stack') = Len(stack) - 1

\* the name the step is about
Current == IF Top.ei <= Len(Top.extra) THEN Top.extra[Top.ei] ELSE FieldNames[Top.fi]

\* a declared field that is neither excluded nor private
Kept(f, field) == field \notin f.exclude /\ ~StartsWithUnderscore(field)

Range(t) == {t[i] : i \in DOMAIN t}

\* C1: get_values never raises and returns a Document whose pk entry is the
\* record's pk, for every record and every (finite, hence acyclic) go_into,
\* exclude, extra and skip_none.
C1_NeverRaises ==
    outcome # Pending =>
        /\ outcome.ty = "doc"
        /\ PK \in DOMAIN outcome.v
        /\ outcome.v[PK] = Pk(call.instance)

\* C2: with skip_none=true a name whose resolved value (the accessor called,
\* where it is callable) is null gets no key, in the extra loop and in the field
\* loop; with skip_none=false it is kept with a null value.
C2_SkipNone ==
    [][ ((ExtraStep \/ FieldStep) /\ Top'.property = None) =>
            /\ Top.skip_none => Current \notin DOMAIN Top'.value
            /\ ( /\ ~Top.skip_none
                 /\ \/ ExtraStep
                    \/ Kept(Top, Current) /\ Current \notin DOMAIN Top.go_into ) =>
                    /\ Current \in DOMAIN Top'.value
                    /\ Top'.value[Current] = None
      ]_vars

RECURSIVE HasPrivateKey(_)
HasPrivateKey(doc) ==
    \E k \in DOMAIN doc :
        \/ StartsWithUnderscore(k)
        \/ doc[k].ty = "doc" /\ HasPrivateKey(doc[k].v)

\* C3 as stated: whatever exclude, go_into and extra contain, no key of the
\* returned Document, at any nesting level, starts with an underscore.
C3_NoPrivateKey ==
    outcome.ty = "doc" => ~HasPrivateKey(outcome.v)

RECURSIVE PrivateOnlyFromExtra(_, _, _)
PrivateOnlyFromExtra(doc, go_into, extra) ==
    \A k \in DOMAIN doc :
        /\ StartsWithUnderscore(k) => k \in Range(extra)
        /\ doc[k].ty = "doc" =>
            /\ k \in DOMAIN go_into
            /\ PrivateOnlyFromExtra(doc[k].v,
                    OptionOf(go_into[k], "go_into", EmptyDict),
                    OptionOf(go_into[k], "extra", <<>>))

\* C3 amended: at every nesting level of the returned Document, a key that
\* starts with an underscore is a name listed in the extra of that level's
\* options; the field loop never stores one.
C3_PrivateOnlyFromExtra ==
    outcome.ty = "doc" =>
        PrivateOnlyFromExtra(outcome.v, call.go_into, call.extra)

\* C3 witness: _secret asked for in extra at the top and present there, the
\* category expanded and its Document without the _secret field it declares
C3_Witness ==
    /\ outcome.ty = "doc"
    /\ SECRET \in Range(call.extra)
    /\ SECRET \in DOMAIN outcome.v
    /\ CATEGORY \in DOMAIN outcome.v
    /\ outcome.v[CATEGORY].ty = "doc"
    /\ SECRET \notin DOMAIN outcome.v[CATEGORY].v

\* C7: the extra loop stores a value by the policy of the field loop: a Model
\* as its pk, a date or time unconverted, an atomic scalar as it is, anything
\* else as its repr.
C7_ExtraClassified ==
    [][ (ExtraStep /\ ~(Top.skip_none /\ Top'.property = None)) =>
            LET p == Top'.property
            IN  /\ Current \in DOMAIN Top'.value
                /\ Top'.value[Current] =
                        IF p.ty = "model" THEN Pk(p.v)
                        ELSE IF p.ty = "date" THEN p
                        ELSE IF IsSimple(p) THEN p
                        ELSE Repr(p)
      ]_vars

\* the options of a go_into entry, a missing one (or a shorthand entry) empty
ExpectedOption(entry, key, empty) ==
    IF "ty" \notin DOMAIN entry /\ key \in DOMAIN entry THEN entry[key] ELSE empty

\* C8: a kept declared field holding a Model is stored as the Model's pk when
\* the field is not a key of go_into; when it is, get_values is called on the
\* Model with the entry's go_into, exclude and extra (missing ones empty) and
\* the same skip_none, and the Document it returns is stored under the field.
C8_RelationPkOrNested ==
    [][ /\ (FieldStep /\ Top'.property.ty = "model" /\ Kept(Top, Current)) =>
              /\ Current \notin DOMAIN Top.go_into
              /\ Top'.value = [k \in DOMAIN Top.value \cup {Current} |->
                                 IF k = Current THEN Pk(Top'.property.v)
                                 ELSE Top.value[k]]
        /\ Push =>
              LET caller == stack'[Len(stack)]
                  entry == Top.go_into[Current]
              IN  /\ Kept(Top, Current)
                  /\ Current \in DOMAIN Top.go_into
                  /\ caller.property.ty = "model"
                  /\ Top'.instance = caller.property.v
                  /\ Top'.go_into = ExpectedOption(entry, "go_into", EmptyDict)
                  /\ Top'.exclude = ExpectedOption(entry, "exclude", {})
                  /\ Top'.extra = ExpectedOption(entry, "extra", <<>>)
                  /\ Top'.skip_none = Top.skip_none
                  /\ Top'.value = (PK :> Pk(caller.property.v))
                  /\ caller.value = Top.value
        /\ Pop =>
              LET caller == stack[Len(stack) - 1]
                  field == FieldNames[caller.fi]
              IN  /\ Top'.value = [k \in DOMAIN caller.value \cup {field} |->
                                     IF k = field THEN DocV(Top.value)
                                     ELSE caller.value[k]]
                  /\ Top'.fi = caller.fi + 1
      ]_vars

\* C8 witness: a Document whose category is the nested Document of the related
\* record, built with the entry's extra, and in which that record's own
\* category, not expanded, is a pk
C8_Witness ==
    /\ outcome.ty = "doc"
    /\ CATEGORY \in DOMAIN outcome.v
    /\ outcome.v[CATEGORY].ty = "doc"
    /\ LABEL \in DOMAIN outcome.v[CATEGORY].v
    /\ CATEGORY \in DOMAIN outcome.v[CATEGORY].v
    /\ outcome.v[CATEGORY].v[CATEGORY] \in {Pk(r) : r \in Records}

Max(S) == CHOOSE x \in S : \A y \in S : y <= x

\* the nesting depth of a go_into dict
RECURSIVE GoDepth(_)
GoDepth(go_into) ==
    IF DOMAIN go_into = {} THEN 0
    ELSE 1 + Max({GoDepth(ExpectedOption(go_into[k], "go_into", EmptyDict)) :
                    k \in DOMAIN go_into})

DepthBounded ==
    stack # <<>> =>
        /\ Len(stack) <= 1 + GoDepth(call.go_into)
        /\ \A i \in 1..(Len(stack) - 1) :
              GoDepth(stack[i + 1].go_into) < GoDepth(stack[i].go_into)

\* C10: get_values ends (returns or raises) on every record graph, cyclic ones
\* too; the nested calls are never deeper than the nesting of go_into, each
\* made with the strictly shallower go_into of the field's entry.
C10_Terminates ==
    /\ []DepthBounded
    /\ <>(outcome # Pending)

\* C10 witness: r1 expanded into r2, whose category refers back to r1 and is
\* stored as r1's pk, the go_into being used up
C10_Witness ==
    /\ Len(stack) = 2
    /\ stack[1].instance = "r1"
    /\ stack[2].instance = "r2"
    /\ stack[2].property = Model("r1")
    /\ CATEGORY \in DOMAIN stack[2].value
    /\ stack[2].value[CATEGORY] = Pk("r1")

====
